---- MODULE Spec2Model ----
(***************************************************************************)
(* Model of homepage-geoip-heatmap (src/src/app.py): the /data handler     *)
(* with its process-wide TTL cache, the upstream client, the response      *)
(* transformer with its point cap, the query builder and the two           *)
(* diagnostic endpoints.                                                   *)
(*                                                                         *)
(* JSON values are records tagged by kind ("null", "num", "str", "list",   *)
(* "obj"); strings are sequences of one-character strings; a Python float  *)
(* is modelled by the integer it denotes (the modelled alphabet has no     *)
(* decimal point, so every coercible string denotes an integer).           *)
(*                                                                         *)
(* Specifications: Spec (concurrent /data handlers), FairSpec (Spec with   *)
(* fair scheduling of the handlers), SeqSpec (handlers one after another), *)
(* DebugSpec (SeqSpec with diagnostic requests), and ParseSpec, CapSpec    *)
(* and BuildSpec for _parse_points, its cap and _build_query on their own. *)
(***************************************************************************)
EXTENDS Integers, Sequences, FiniteSets, TLC

VARIABLES
    clock,                \* time.time(), non-decreasing
    DEBUG,                \* app.py:18, fixed at process start
    HEATMAP_CACHE_SECONDS,\* app.py:32, fixed at process start
    HEATMAP_MAX_POINTS,   \* app.py:33, fixed at process start
    _cache_at,            \* app.py:66
    _cache_points,        \* app.py:67
    _cache_last_error,    \* app.py:68
    pc,                   \* position of each request handler
    now,                  \* the local `now` of each /data handler
    outcome,              \* what the try block of each handler produced
    resp,                 \* the response each handler returned
    payload,              \* input of the transformer run
    parsed,               \* result of the transformer run
    HEATMAP_TIME_WINDOW,  \* app.py:30, fixed at process start
    GEO_MEASUREMENT,      \* app.py:28, fixed at process start
    points,               \* the local `points` of _parse_points before the cap
    capped,               \* `points` after the cap
    recapped,             \* `points` after the cap was applied once more
    built,                \* the result of a _build_query run
    dresp                 \* the response of the last diagnostic request

vars == <<clock, DEBUG, HEATMAP_CACHE_SECONDS, HEATMAP_MAX_POINTS,
          _cache_at, _cache_points, _cache_last_error,
          pc, now, outcome, resp, payload, parsed,
          HEATMAP_TIME_WINDOW, GEO_MEASUREMENT, points, capped, recapped,
          built, dresp>>

-----------------------------------------------------------------------------
(* Bounds *)

NReq == 2
MaxClock == 2
MaxSeries == 2
MaxPoints == 5
MaxWinLen == 4
MaxMeasLen == 3

Reqs == 1..NReq

-----------------------------------------------------------------------------
(* JSON values and the Python operations the transformer applies to them *)

None == "None"

JNull == [k |-> "null"]
JNum(n) == [k |-> "num", n |-> n]
JStr(s) == [k |-> "str", s |-> s]
JList(l) == [k |-> "list", l |-> l]
JObj(f) == [k |-> "obj", o |-> f]

EmptyObj == JObj([key \in {} |-> JNull])

\* bool(x): None, 0, "", [] and {} are falsy
Truthy(x) ==
    CASE x.k = "null" -> FALSE
      [] x.k = "num" -> x.n # 0
      [] x.k = "str" -> Len(x.s) > 0
      [] x.k = "list" -> Len(x.l) > 0
      [] x.k = "obj" -> DOMAIN x.o # {}

\* dict.get(key): the value, or None when the key is absent
DictGet(d, key) == IF key \in DOMAIN d.o THEN d.o[key] ELSE JNull

\* `x or default`
OrElse(x, default) == IF Truthy(x) THEN x ELSE default

Raise(e) == [ok |-> FALSE, exc |-> e]
Ok(x) == [ok |-> TRUE, val |-> x]

Digits == {"0", "1", "2", "3", "4", "5", "6", "7", "8", "9"}

DigitVal(c) ==
    CASE c = "0" -> 0 [] c = "1" -> 1 [] c = "2" -> 2 [] c = "3" -> 3
      [] c = "4" -> 4 [] c = "5" -> 5 [] c = "6" -> 6 [] c = "7" -> 7
      [] c = "8" -> 8 [] c = "9" -> 9

\* the characters str.strip() and float() treat as whitespace
Whitespace == {" ", "\t", "\n", "\r"}

RECURSIVE StripLeft(_)
StripLeft(s) ==
    IF Len(s) > 0 /\ Head(s) \in Whitespace THEN StripLeft(Tail(s)) ELSE s

RECURSIVE StripRight(_)
StripRight(s) ==
    IF Len(s) > 0 /\ s[Len(s)] \in Whitespace
    THEN StripRight(SubSeq(s, 1, Len(s) - 1))
    ELSE s

\* str.strip()
Strip(s) == StripRight(StripLeft(s))

RECURSIVE DigitsVal(_)
DigitsVal(s) ==
    IF Len(s) = 0 THEN 0
    ELSE 10 * DigitsVal(SubSeq(s, 1, Len(s) - 1)) + DigitVal(s[Len(s)])

AllDigits(s) == Len(s) > 0 /\ \A i \in 1..Len(s) : s[i] \in Digits

\* float(str): surrounding whitespace is ignored, then an optional sign and
\* one or more digits; anything else is a ValueError
FloatOfStr(s) ==
    LET t == Strip(s)
        signed == Len(t) > 0 /\ Head(t) \in {"-", "+"}
        body == IF signed THEN Tail(t) ELSE t
    IN  IF ~AllDigits(body) THEN Raise("ValueError")
        ELSE IF signed /\ Head(t) = "-" THEN Ok(0 - DigitsVal(body))
        ELSE Ok(DigitsVal(body))

\* float(x)
Float(x) ==
    CASE x.k = "num" -> Ok(x.n)
      [] x.k = "str" -> FloatOfStr(x.s)
      [] OTHER -> Raise("TypeError")

-----------------------------------------------------------------------------
(* _parse_points *)

\* list.sort(key=lambda p: p[2], reverse=True): stable, descending by weight
RECURSIVE SortByHitsDesc(_)
SortByHitsDesc(pts) ==
    IF Len(pts) <= 1 THEN pts
    ELSE LET n == Len(pts)
             p == pts[n]
             rest == SortByHitsDesc(SubSeq(pts, 1, n - 1))
             keep == {i \in 1..(n - 1) : rest[i][3] >= p[3]}
             at == Cardinality(keep)
         IN  SubSeq(rest, 1, at) \o <<p>> \o SubSeq(rest, at + 1, n - 1)

\* the list is cut to the limit without being sorted first
Cap_NoSort(pts) ==
    IF HEATMAP_MAX_POINTS # 0 /\ HEATMAP_MAX_POINTS > 0
       /\ Len(pts) > HEATMAP_MAX_POINTS
    THEN SubSeq(pts, 1, HEATMAP_MAX_POINTS)
    ELSE pts

\* the slice keeps what follows the limit: points[HEATMAP_MAX_POINTS:]
Cap_Tail(pts) ==
    IF HEATMAP_MAX_POINTS # 0 /\ HEATMAP_MAX_POINTS > 0
       /\ Len(pts) > HEATMAP_MAX_POINTS
    THEN SubSeq(SortByHitsDesc(pts), HEATMAP_MAX_POINTS + 1, Len(pts))
    ELSE pts

\* app.py:161-163
Cap(pts) ==
    IF HEATMAP_MAX_POINTS # 0 /\ HEATMAP_MAX_POINTS > 0
       /\ Len(pts) > HEATMAP_MAX_POINTS
    THEN SubSeq(SortByHitsDesc(pts), 1, HEATMAP_MAX_POINTS)
    ELSE pts

\* a weight of 0 passes the filter
KeepPoint_OrZero(hits) == hits >= 0

\* app.py:158: only a strictly positive weight is emitted
KeepPoint(hits) == hits > 0

\* app.py:150-156: the weight of one series
SeriesHits(s) ==
    LET values == OrElse(DictGet(s, "values"), JList(<<>>))
    IN  IF ~Truthy(values) THEN Ok(0)
        ELSE IF values.k = "obj" THEN Raise("KeyError")        \* values[0]
        ELSE IF values.k = "num" THEN Raise("TypeError")       \* values[0]
        ELSE IF values.k = "str" THEN Ok(0)                    \* len("c") = 1
        ELSE LET row == values.l[1]
             IN  IF row.k \in {"null", "num"} THEN Raise("TypeError")  \* len(row)
                 ELSE IF row.k = "obj"
                 THEN IF Cardinality(DOMAIN row.o) >= 2
                      THEN Raise("KeyError")                   \* row[1]
                      ELSE Ok(0)
                 ELSE IF row.k = "str"
                 THEN IF Len(row.s) < 2 THEN Ok(0)
                      ELSE IF Float(JStr(<<row.s[2]>>)).ok
                      THEN Float(JStr(<<row.s[2]>>)) ELSE Ok(0)
                 ELSE IF Len(row.l) < 2 THEN Ok(0)
                 ELSE LET c == row.l[2]
                      IN  IF c.k = "null" THEN Ok(0)
                          ELSE IF Float(c).ok THEN Float(c) ELSE Ok(0)

\* app.py:138-159: the loop body for one element of series_list
SeriesStep(s) ==
    IF s.k # "obj" THEN [t |-> "raise", exc |-> "AttributeError"]   \* s.get
    ELSE
    LET tags == OrElse(DictGet(s, "tags"), EmptyObj)
    IN  IF tags.k # "obj" THEN [t |-> "raise", exc |-> "AttributeError"]
        ELSE
        LET lat_s == DictGet(tags, "latitude")
            lon_s == DictGet(tags, "longitude")
        IN  IF lat_s.k = "null" \/ lon_s.k = "null" THEN [t |-> "skip"]
            ELSE IF ~Float(lat_s).ok \/ ~Float(lon_s).ok THEN [t |-> "skip"]
            ELSE LET hits == SeriesHits(s)
                 IN  IF ~hits.ok THEN [t |-> "raise", exc |-> hits.exc]
                     ELSE IF KeepPoint(hits.val)
                     THEN [t |-> "emit",
                           p |-> <<Float(lat_s).val, Float(lon_s).val, hits.val>>]
                     ELSE [t |-> "skip"]

\* app.py:137-159: the loop over series_list, from element i on
RECURSIVE SeriesLoop(_, _, _)
SeriesLoop(series, i, pts) ==
    IF i > Len(series) THEN Ok(pts)
    ELSE LET st == SeriesStep(series[i])
         IN  CASE st.t = "raise" -> Raise(st.exc)
               [] st.t = "skip" -> SeriesLoop(series, i + 1, pts)
               [] st.t = "emit" -> SeriesLoop(series, i + 1, Append(pts, st.p))

\* the elements a `for` loop draws from x
IterItems(x) ==
    CASE x.k = "list" -> x.l
      [] x.k = "str" -> [i \in 1..Len(x.s) |-> JStr(<<x.s[i]>>)]
      [] OTHER -> <<>>

\* app.py:129-165; Ok(points) or the exception that escapes
_parse_points(p) ==
    IF p.k # "obj" THEN Raise("AttributeError")                  \* payload.get
    ELSE
    LET results == OrElse(DictGet(p, "results"), JList(<<>>))
    IN  IF ~Truthy(results) THEN Ok(<<>>)
        ELSE IF results.k = "obj" THEN Raise("KeyError")         \* results[0]
        ELSE IF results.k = "num" THEN Raise("TypeError")        \* results[0]
        ELSE IF results.k = "str" THEN Raise("AttributeError")   \* "c".get
        ELSE
        LET first == results.l[1]
        IN  IF first.k # "obj" THEN Raise("AttributeError")      \* results[0].get
            ELSE
            LET series_list == OrElse(DictGet(first, "series"), JList(<<>>))
            IN  IF series_list.k = "num" THEN Raise("TypeError") \* for s in 5
                ELSE IF series_list.k = "obj"
                THEN Raise("AttributeError")                     \* key.get
                ELSE LET r == SeriesLoop(IterItems(series_list), 1, <<>>)
                     IN  IF r.ok THEN Ok(Cap(r.val)) ELSE r

-----------------------------------------------------------------------------
(* Payloads the transformer is run on *)

Absent == [k |-> "absent"]
NotRun == [k |-> "notrun"]

\* the result slot of a run that has not happened, and of one that returned x
NoRun == [run |-> FALSE, val |-> <<>>]
Ran(x) == [run |-> TRUE, val |-> x]

\* a JSON object holding the given keys, those with an Absent value left out
MkObj(f) == JObj([key \in {x \in DOMAIN f : f[x] # Absent} |-> f[key]])

T == JStr(<<"t">>)
GoodTag == JStr(<<"5">>)

LatVals ==
    {Absent, JNull, JStr(<<"-", "5">>), JStr(<<" ", "2", " ">>), JStr(<<"x">>),
     JStr(<<>>), JNum(0), JList(<<>>)}

LonVals == {Absent, JNull, JStr(<<"5", "x">>), JNum(7)}

CountVals ==
    {JNull, JNum(0), JNum(0 - 1), JNum(5), JNum(2), JStr(<<"3">>),
     JStr(<<"x">>), JList(<<>>)}

Row(c) == JList(<<T, c>>)

RowsVals ==
    {Absent, JNull, JList(<<>>), JList(<<JList(<<T>>)>>),
     JList(<<Row(JNum(9)), Row(JNum(1))>>)}
    \cup {JList(<<Row(c)>>) : c \in CountVals}

MkSeries(lat, lon, values) ==
    MkObj([tags |-> MkObj([latitude |-> lat, longitude |-> lon]),
           values |-> values])

\* series that are objects whose tags are a mapping and whose values are
\* a list of rows
WellShapedSeries ==
    {MkSeries(lat, GoodTag, JList(<<Row(JNum(5))>>)) : lat \in LatVals}
    \cup {MkSeries(GoodTag, lon, JList(<<Row(JNum(2))>>)) : lon \in LonVals}
    \cup {MkSeries(JStr(<<"-", "5">>), GoodTag, rows) : rows \in RowsVals}
    \cup {MkObj([tags |-> JNull, values |-> JList(<<Row(JNum(5))>>)]),
          MkObj([values |-> JList(<<Row(JNum(5))>>)])}

GoodRows == JList(<<Row(JNum(4))>>)

\* series with a nested value of an unexpected type
MalformedSeries ==
    {JNum(5), JStr(<<"x">>), JList(<<>>),
     MkObj([tags |-> JStr(<<"x">>), values |-> GoodRows]),
     MkObj([tags |-> JList(<<GoodTag>>), values |-> GoodRows]),
     MkSeries(GoodTag, GoodTag, JList(<<JNull>>)),
     MkSeries(GoodTag, GoodTag, JList(<<JNum(5)>>)),
     MkSeries(GoodTag, GoodTag, JNum(5)),
     MkSeries(GoodTag, GoodTag, MkObj([a |-> JNum(1)]))}

Series == WellShapedSeries \cup MalformedSeries

SeqsOver(S, n) == UNION {[1..m -> S] : m \in 0..n}

MkPayload(series) ==
    MkObj([results |-> JList(<<MkObj([series |-> JList(series)])>>)])

\* objects whose `results` or `series` is missing, empty or of another type
OddPayloads ==
    {MkObj([results |-> r]) :
        r \in {Absent, JNull, JList(<<>>), JNum(5), JStr(<<"a", "b">>),
               MkObj([a |-> JNum(1)]), JList(<<JNum(5)>>), JList(<<JNull>>),
               JList(<<EmptyObj>>)}}
    \cup {MkObj([results |-> JList(<<MkObj([series |-> s])>>)]) :
        s \in {JNull, JNum(5), JStr(<<"a">>), MkObj([a |-> JNum(1)])}}

ParsePayloads ==
    {MkPayload(sl) : sl \in SeqsOver(Series, MaxSeries)} \cup OddPayloads

MaxPointsVals == {0 - 1, 0, 1, 2}


-----------------------------------------------------------------------------
(* The upstream store and _influx_query *)

sA == MkSeries(JStr(<<"-", "5">>), GoodTag, JList(<<Row(JNum(9)), Row(JNum(1))>>))
sB == MkSeries(GoodTag, JNum(7), JList(<<Row(JNum(2))>>))

\* bodies the store answers with
UpstreamPayloads ==
    {MkPayload(<<sA>>), MkPayload(<<sB, sA>>), EmptyObj,
     MkPayload(<<sA, JNum(5)>>)}

\* what requests.get produces: an exception, or a response with a status
\* code and a JSON body
UpstreamReplies ==
    {[raised |-> "ConnectionError", status_code |-> 0, body |-> EmptyObj],
     [raised |-> "", status_code |-> 500, body |-> EmptyObj]}
    \cup {[raised |-> "", status_code |-> 200, body |-> b] : b \in UpstreamPayloads}

\* app.py:94-111
_influx_query(reply) ==
    IF reply.raised # "" THEN Raise(reply.raised)             \* requests.get
    ELSE IF reply.status_code >= 400 THEN Raise("HTTPError")  \* raise_for_status
    ELSE Ok(reply.body)                                       \* r.json()

\* repr(e) of an exception: never the empty string
Repr(exc) == exc \o "()"

-----------------------------------------------------------------------------
(* The service *)

TTLVals == {0 - 1, 0, 1}
CapVals == {0, 1}

NoOutcome == [ok |-> FALSE, exc |-> ""]
NoResp == [status_code |-> 0, array |-> FALSE, points |-> <<>>, exception |-> ""]

\* JSONResponse(points)
JSONResponse(pts) ==
    [status_code |-> 200, array |-> TRUE, points |-> pts, exception |-> ""]

\* app.py:223-233
ErrorResponse(e) ==
    [status_code |-> 502, array |-> FALSE, points |-> <<>>, exception |-> e]

\* app.py:30: the default of HEATMAP_TIME_WINDOW
DefaultWindow == <<"2", "4", "h">>

\* app.py:28: the default of GEO_MEASUREMENT
DefaultMeasurement ==
    <<"g", "e", "o", "i", "p", "2", "i", "n", "f", "l", "u", "x">>

\* no diagnostic request was answered yet
NoDebugResp ==
    [endpoint |-> "", status_code |-> 0, text |-> <<>>, detail |-> "",
     has_last_error |-> FALSE, last_error |-> ""]

Init ==
    /\ clock = 0
    /\ DEBUG \in BOOLEAN
    /\ HEATMAP_CACHE_SECONDS \in TTLVals
    /\ HEATMAP_MAX_POINTS \in CapVals
    /\ _cache_at = 0
    /\ _cache_points = <<>>
    /\ _cache_last_error = None
    /\ pc = [r \in Reqs |-> "idle"]
    /\ now = [r \in Reqs |-> 0]
    /\ outcome = [r \in Reqs |-> NoOutcome]
    /\ resp = [r \in Reqs |-> NoResp]
    /\ payload = EmptyObj
    /\ parsed = NotRun
    /\ HEATMAP_TIME_WINDOW = DefaultWindow
    /\ GEO_MEASUREMENT = DefaultMeasurement
    /\ points = <<>>
    /\ capped = NoRun
    /\ recapped = NoRun
    /\ built = NoRun
    /\ dresp = NoDebugResp

config == <<DEBUG, HEATMAP_CACHE_SECONDS, HEATMAP_MAX_POINTS,
            HEATMAP_TIME_WINDOW, GEO_MEASUREMENT>>
cache == <<_cache_at, _cache_points, _cache_last_error>>
transformer == <<payload, parsed>>
capper == <<points, capped, recapped>>

\* time passes
Tick ==
    /\ clock < MaxClock
    /\ clock' = clock + 1
    /\ UNCHANGED <<config, cache, pc, now, outcome, resp,
                   transformer, capper, built, dresp>>

\* app.py:196: a /data request arrives and samples the clock
Start(r) ==
    /\ pc[r] = "idle"
    /\ now' = [now EXCEPT ![r] = clock]
    /\ pc' = [pc EXCEPT ![r] = "check"]
    /\ UNCHANGED <<clock, config, cache, outcome, resp,
                   transformer, capper, built, dresp>>

\* the age test admits an age equal to the TTL
Fresh_Le(r) ==
    HEATMAP_CACHE_SECONDS > 0 /\ (now[r] - _cache_at) <= HEATMAP_CACHE_SECONDS

\* the age test alone, without the test that caching is enabled
Fresh_NoGuard(r) == (now[r] - _cache_at) <= HEATMAP_CACHE_SECONDS

\* app.py:197: the freshness test
Fresh(r) ==
    HEATMAP_CACHE_SECONDS > 0 /\ (now[r] - _cache_at) < HEATMAP_CACHE_SECONDS

\* single flight: while another request's fetch is in flight a stale check
\* answers from the cache and issues no query of its own
Check_SingleFlight(r) ==
    /\ pc[r] = "check"
    /\ pc' = [pc EXCEPT ![r] =
                 IF Fresh(r) \/ \E q \in Reqs \ {r} : pc[q] = "fetching"
                 THEN "hit" ELSE "fetching"]
    /\ UNCHANGED <<clock, config, cache, now, outcome, resp, transformer,
                   capper, built, dresp>>

\* app.py:197, 202-204: branch on freshness; a stale cache issues the query
Check(r) ==
    /\ pc[r] = "check"
    /\ pc' = [pc EXCEPT ![r] = IF Fresh(r) THEN "hit" ELSE "fetching"]
    /\ UNCHANGED <<clock, config, cache, now, outcome, resp, transformer, capper, built, dresp>>

\* app.py:200
HitReturn(r) ==
    /\ pc[r] = "hit"
    /\ resp' = [resp EXCEPT ![r] = JSONResponse(_cache_points)]
    /\ pc' = [pc EXCEPT ![r] = "done"]
    /\ UNCHANGED <<clock, config, cache, now, outcome,
                   transformer, capper, built, dresp>>

\* app.py:204-205: the try block up to the first store
TryFetch(reply) ==
    LET q == _influx_query(reply)
    IN  IF q.ok THEN _parse_points(q.val) ELSE q

\* app.py:204-205, 215: the upstream call returns or raises, the payload is parsed
FetchReturn(r) ==
    /\ pc[r] = "fetching"
    /\ \E reply \in UpstreamReplies :
         /\ outcome' = [outcome EXCEPT ![r] = TryFetch(reply)]
         /\ pc' = [pc EXCEPT ![r] =
                      IF TryFetch(reply).ok THEN "s_points" ELSE "f_error"]
    /\ UNCHANGED <<clock, config, cache, now, resp,
                   transformer, capper, built, dresp>>

\* app.py:206
StorePoints(r) ==
    /\ pc[r] = "s_points"
    /\ _cache_points' = outcome[r].val
    /\ pc' = [pc EXCEPT ![r] = "s_error"]
    /\ UNCHANGED <<clock, config, _cache_at, _cache_last_error, now, outcome,
                   resp, transformer, capper, built, dresp>>

\* the success path leaves last_error as it was
ClearError_Skip(r) ==
    /\ pc[r] = "s_error"
    /\ pc' = [pc EXCEPT ![r] = "s_at"]
    /\ UNCHANGED <<clock, config, cache, now, outcome, resp, transformer, capper, built, dresp>>

\* app.py:207
ClearError(r) ==
    /\ pc[r] = "s_error"
    /\ _cache_last_error' = None
    /\ pc' = [pc EXCEPT ![r] = "s_at"]
    /\ UNCHANGED <<clock, config, _cache_at, _cache_points, now, outcome,
                   resp, transformer, capper, built, dresp>>

\* app.py:208
StoreAt(r) ==
    /\ pc[r] = "s_at"
    /\ _cache_at' = now[r]
    /\ pc' = [pc EXCEPT ![r] = "s_return"]
    /\ UNCHANGED <<clock, config, _cache_points, _cache_last_error, now,
                   outcome, resp, transformer, capper, built, dresp>>

\* app.py:213
SuccessReturn(r) ==
    /\ pc[r] = "s_return"
    /\ resp' = [resp EXCEPT ![r] = JSONResponse(_cache_points)]
    /\ pc' = [pc EXCEPT ![r] = "done"]
    /\ UNCHANGED <<clock, config, cache, now, outcome,
                   transformer, capper, built, dresp>>

\* the exception leaves the handler: no store is made and the framework
\* answers with status 500
RecordError_Propagate(r) ==
    /\ pc[r] = "f_error"
    /\ resp' = [resp EXCEPT ![r] =
                   [status_code |-> 500, array |-> FALSE, points |-> <<>>,
                    exception |-> ""]]
    /\ pc' = [pc EXCEPT ![r] = "done"]
    /\ UNCHANGED <<clock, config, cache, now, outcome, transformer, capper,
                   built, dresp>>

\* app.py:216
RecordError(r) ==
    /\ pc[r] = "f_error"
    /\ _cache_last_error' = Repr(outcome[r].exc)
    /\ pc' = [pc EXCEPT ![r] = "f_points"]
    /\ UNCHANGED <<clock, config, _cache_at, _cache_points, now, outcome,
                   resp, transformer, capper, built, dresp>>

\* the failure path leaves the cached points as they were
ResetPoints_Keep(r) ==
    /\ pc[r] = "f_points"
    /\ pc' = [pc EXCEPT ![r] = "f_at"]
    /\ UNCHANGED <<clock, config, cache, now, outcome, resp, transformer, capper, built, dresp>>

\* app.py:218
ResetPoints(r) ==
    /\ pc[r] = "f_points"
    /\ _cache_points' = <<>>
    /\ pc' = [pc EXCEPT ![r] = "f_at"]
    /\ UNCHANGED <<clock, config, _cache_at, _cache_last_error, now, outcome,
                   resp, transformer, capper, built, dresp>>

\* a failed attempt is not time-stamped
FailAt_Skip(r) ==
    /\ pc[r] = "f_at"
    /\ pc' = [pc EXCEPT ![r] = "f_return"]
    /\ UNCHANGED <<clock, config, cache, now, outcome, resp, transformer,
                   capper, built, dresp>>

\* app.py:219
FailAt(r) ==
    /\ pc[r] = "f_at"
    /\ _cache_at' = now[r]
    /\ pc' = [pc EXCEPT ![r] = "f_return"]
    /\ UNCHANGED <<clock, config, _cache_points, _cache_last_error, now,
                   outcome, resp, transformer, capper, built, dresp>>

\* the failure path answers with the error object whatever DEBUG is
FailureReturn_AlwaysDetail(r) ==
    /\ pc[r] = "f_return"
    /\ resp' = [resp EXCEPT ![r] = ErrorResponse(Repr(outcome[r].exc))]
    /\ pc' = [pc EXCEPT ![r] = "done"]
    /\ UNCHANGED <<clock, config, cache, now, outcome, transformer, capper, built, dresp>>

\* app.py:222-235
FailureReturn(r) ==
    /\ pc[r] = "f_return"
    /\ resp' = [resp EXCEPT ![r] =
                   IF DEBUG THEN ErrorResponse(Repr(outcome[r].exc))
                            ELSE JSONResponse(<<>>)]
    /\ pc' = [pc EXCEPT ![r] = "done"]
    /\ UNCHANGED <<clock, config, cache, now, outcome,
                   transformer, capper, built, dresp>>

\* the steps of a handler after its arrival
Step(r) ==
    \/ Check(r)
    \/ HitReturn(r)
    \/ FetchReturn(r)
    \/ StorePoints(r)
    \/ ClearError(r)
    \/ StoreAt(r)
    \/ SuccessReturn(r)
    \/ RecordError(r)
    \/ ResetPoints(r)
    \/ FailAt(r)
    \/ FailureReturn(r)

\* the requests are handled on concurrent threads, each request once
Next ==
    \/ Tick
    \/ \E r \in Reqs : Start(r)
    \/ \E r \in Reqs : Step(r)

Spec == Init /\ [][Next]_vars

\* every handler thread that has work to do is scheduled again, and the
\* upstream call answers or raises (app.py:103, timeout=10)
FairSpec == Spec /\ \A r \in Reqs : WF_vars(Step(r))

\* the requests are handled one after another
SeqStart(r) == (\A q \in Reqs : pc[q] \in {"idle", "done"}) /\ Start(r)

SeqNext ==
    \/ Tick
    \/ \E r \in Reqs : SeqStart(r)
    \/ \E r \in Reqs : Step(r)

SeqSpec == Init /\ [][SeqNext]_vars

-----------------------------------------------------------------------------
(* The transformer on its own *)

ParseInit ==
    /\ clock = 0
    /\ DEBUG = FALSE
    /\ HEATMAP_CACHE_SECONDS = 0
    /\ HEATMAP_MAX_POINTS \in MaxPointsVals
    /\ _cache_at = 0
    /\ _cache_points = <<>>
    /\ _cache_last_error = None
    /\ pc = [r \in Reqs |-> "idle"]
    /\ now = [r \in Reqs |-> 0]
    /\ outcome = [r \in Reqs |-> NoOutcome]
    /\ resp = [r \in Reqs |-> NoResp]
    /\ payload \in ParsePayloads
    /\ parsed = NotRun
    /\ HEATMAP_TIME_WINDOW = DefaultWindow
    /\ GEO_MEASUREMENT = DefaultMeasurement
    /\ points = <<>>
    /\ capped = NoRun
    /\ recapped = NoRun
    /\ built = NoRun
    /\ dresp = NoDebugResp

Parse ==
    /\ parsed = NotRun
    /\ parsed' = _parse_points(payload)
    /\ UNCHANGED <<clock, config, cache, pc, now, outcome, resp,
                   payload, capper, built, dresp>>

ParseNext == Parse

ParseSpec == ParseInit /\ [][ParseNext]_vars


-----------------------------------------------------------------------------
(* The cap of _parse_points on its own *)

\* points as the loop of _parse_points emits them: [lat, lon, hits], hits > 0
PointVals ==
    {<<0, 0, 1>>, <<0, 0, 5>>, <<0, 0, 3>>, <<0, 0, 9>>, <<0, 0, 2>>,
     <<1, 0, 3>>}

CapLimits == {0 - 1, 0, 1, 3}

CapInit ==
    /\ clock = 0
    /\ DEBUG = FALSE
    /\ HEATMAP_CACHE_SECONDS = 0
    /\ HEATMAP_MAX_POINTS \in CapLimits
    /\ _cache_at = 0
    /\ _cache_points = <<>>
    /\ _cache_last_error = None
    /\ pc = [r \in Reqs |-> "idle"]
    /\ now = [r \in Reqs |-> 0]
    /\ outcome = [r \in Reqs |-> NoOutcome]
    /\ resp = [r \in Reqs |-> NoResp]
    /\ payload = EmptyObj
    /\ parsed = NotRun
    /\ HEATMAP_TIME_WINDOW = DefaultWindow
    /\ GEO_MEASUREMENT = DefaultMeasurement
    /\ points \in SeqsOver(PointVals, MaxPoints)
    /\ capped = NoRun
    /\ recapped = NoRun
    /\ built = NoRun
    /\ dresp = NoDebugResp

\* app.py:161-165: the cap is applied to the emitted points
ApplyCap ==
    /\ ~capped.run
    /\ capped' = Ran(Cap(points))
    /\ UNCHANGED <<clock, config, cache, pc, now, outcome, resp, transformer,
                   points, recapped, built, dresp>>

\* app.py:161-165: the cap is applied to a list that it has produced
ApplyCapAgain ==
    /\ capped.run
    /\ ~recapped.run
    /\ recapped' = Ran(Cap(capped.val))
    /\ UNCHANGED <<clock, config, cache, pc, now, outcome, resp, transformer,
                   points, capped, built, dresp>>

CapNext == ApplyCap \/ ApplyCapAgain

CapSpec == CapInit /\ [][CapNext]_vars


-----------------------------------------------------------------------------
(* _build_query *)

\* app.py:71: the units of the duration grammar
Units == {<<"m", "s">>, <<"s">>, <<"m">>, <<"h">>, <<"d">>, <<"w">>}

\* ^[0-9]+(ms|s|m|h|d|w) followed by the very end of the string
MatchToEnd(w) ==
    \E i \in 1..Len(w) :
        AllDigits(SubSeq(w, 1, i)) /\ SubSeq(w, i + 1, Len(w)) \in Units

\* the pattern without its closing anchor: a duration followed by anything
_DURATION_RE_match_NoEnd(w) ==
    \E i \in 1..Len(w) : \E j \in i..Len(w) :
        AllDigits(SubSeq(w, 1, i)) /\ SubSeq(w, i + 1, j) \in Units

\* app.py:71, 116: _DURATION_RE.match(w); `$` matches at the end of the
\* string and also just before a newline that ends the string
_DURATION_RE_match(w) ==
    \/ MatchToEnd(w)
    \/ Len(w) > 0 /\ w[Len(w)] = "\n" /\ MatchToEnd(SubSeq(w, 1, Len(w) - 1))

\* only the first double quote is removed: replace('"', "", 1)
RECURSIVE StripQuotes_First(_)
StripQuotes_First(s) ==
    IF Len(s) = 0 THEN s
    ELSE IF Head(s) = "\"" THEN Tail(s)
    ELSE <<Head(s)>> \o StripQuotes_First(Tail(s))

\* app.py:120: GEO_MEASUREMENT.replace('"', "")
RECURSIVE StripQuotes(_)
StripQuotes(s) ==
    IF Len(s) = 0 THEN s
    ELSE IF Head(s) = "\"" THEN StripQuotes(Tail(s))
    ELSE <<Head(s)>> \o StripQuotes(Tail(s))

\* app.py:118: the fallback window
FallbackWindow == <<"2", "4", "h">>

\* app.py:122-123: 'SELECT SUM("count") AS hits FROM "'
QSelect ==
    <<"S", "E", "L", "E", "C", "T", " ", "S", "U", "M", "(", "\"", "c", "o",
      "u", "n", "t", "\"", ")", " ", "A", "S", " ", "h", "i", "t", "s", " ",
      "F", "R", "O", "M", " ", "\"">>

\* app.py:123-124: '" WHERE time > now() - '
QWhere ==
    <<"\"", " ", "W", "H", "E", "R", "E", " ", "t", "i", "m", "e", " ", ">",
      " ", "n", "o", "w", "(", ")", " ", "-", " ">>

\* app.py:124-125: ' GROUP BY "latitude","longitude"'
QGroup ==
    <<" ", "G", "R", "O", "U", "P", " ", "B", "Y", " ", "\"", "l", "a", "t",
      "i", "t", "u", "d", "e", "\"", ",", "\"", "l", "o", "n", "g", "i",
      "t", "u", "d", "e", "\"">>

\* app.py:114-126
_build_query ==
    LET stripped == Strip(HEATMAP_TIME_WINDOW)
        window == IF ~_DURATION_RE_match(stripped) THEN FallbackWindow
                  ELSE stripped
        meas == StripQuotes(GEO_MEASUREMENT)
    IN  QSelect \o meas \o QWhere \o window \o QGroup

\* values of HEATMAP_TIME_WINDOW and GEO_MEASUREMENT in the environment
WindowChars == {"5", "m", "s", " ", "\n"}
MeasChars == {"a", "\""}

BuildInit ==
    /\ clock = 0
    /\ DEBUG = FALSE
    /\ HEATMAP_CACHE_SECONDS = 0
    /\ HEATMAP_MAX_POINTS = 0
    /\ _cache_at = 0
    /\ _cache_points = <<>>
    /\ _cache_last_error = None
    /\ pc = [r \in Reqs |-> "idle"]
    /\ now = [r \in Reqs |-> 0]
    /\ outcome = [r \in Reqs |-> NoOutcome]
    /\ resp = [r \in Reqs |-> NoResp]
    /\ payload = EmptyObj
    /\ parsed = NotRun
    /\ HEATMAP_TIME_WINDOW \in SeqsOver(WindowChars, MaxWinLen)
    /\ GEO_MEASUREMENT \in SeqsOver(MeasChars, MaxMeasLen)
    /\ points = <<>>
    /\ capped = NoRun
    /\ recapped = NoRun
    /\ built = NoRun
    /\ dresp = NoDebugResp

\* app.py:114-126: the query is built from the configuration
Build ==
    /\ ~built.run
    /\ built' = Ran(_build_query)
    /\ UNCHANGED <<clock, config, cache, pc, now, outcome, resp, transformer,
                   capper, dresp>>

BuildNext == Build

BuildSpec == BuildInit /\ [][BuildNext]_vars


-----------------------------------------------------------------------------
(* The diagnostic endpoints *)

\* app.py:241: "Not Found"
NotFoundText == <<"N", "o", "t", " ", "F", "o", "u", "n", "d">>

\* app.py:238-242: a str returned through PlainTextResponse is answered with
\* the default status 200
PlainTextResponse(text) ==
    [endpoint |-> "/debug/query", status_code |-> 200, text |-> text,
     detail |-> "", has_last_error |-> FALSE, last_error |-> ""]

\* app.py:238-242: GET /debug/query
DebugQuery ==
    /\ dresp' = IF ~DEBUG THEN PlainTextResponse(NotFoundText)
                          ELSE PlainTextResponse(_build_query)
    /\ UNCHANGED <<clock, config, cache, pc, now, outcome, resp, transformer,
                   capper, built>>

\* app.py:245-249: GET /debug/last_error
DebugLastError ==
    /\ dresp' =
         IF ~DEBUG
         THEN [endpoint |-> "/debug/last_error", status_code |-> 404,
               text |-> <<>>, detail |-> "Not Found",
               has_last_error |-> FALSE, last_error |-> ""]
         ELSE [endpoint |-> "/debug/last_error", status_code |-> 200,
               text |-> <<>>, detail |-> "",
               has_last_error |-> TRUE, last_error |-> _cache_last_error]
    /\ UNCHANGED <<clock, config, cache, pc, now, outcome, resp, transformer,
                   capper, built>>

\* windows the service is configured with
ServiceWindows == {DefaultWindow, <<"5", "m", " ">>, <<"m">>}

DebugInit ==
    /\ clock = 0
    /\ DEBUG \in BOOLEAN
    /\ HEATMAP_CACHE_SECONDS \in TTLVals
    /\ HEATMAP_MAX_POINTS \in CapVals
    /\ _cache_at = 0
    /\ _cache_points = <<>>
    /\ _cache_last_error = None
    /\ pc = [r \in Reqs |-> "idle"]
    /\ now = [r \in Reqs |-> 0]
    /\ outcome = [r \in Reqs |-> NoOutcome]
    /\ resp = [r \in Reqs |-> NoResp]
    /\ payload = EmptyObj
    /\ parsed = NotRun
    /\ HEATMAP_TIME_WINDOW \in ServiceWindows
    /\ GEO_MEASUREMENT = DefaultMeasurement
    /\ points = <<>>
    /\ capped = NoRun
    /\ recapped = NoRun
    /\ built = NoRun
    /\ dresp = NoDebugResp

\* /data requests handled one after another, diagnostic requests at any time
DebugNext ==
    \/ SeqNext
    \/ DebugQuery
    \/ DebugLastError

DebugSpec == DebugInit /\ [][DebugNext]_vars


-----------------------------------------------------------------------------
(* Claims about the TTL cache *)

Failed(r) == ~outcome[r].ok /\ outcome[r].exc # ""
Succeeded(r) == outcome[r].ok
NoUpstreamCall(r) == outcome[r] = NoOutcome

\* now - fetched_at < ttl with ttl > 0, as the specification words it
IsFresh(r) ==
    /\ HEATMAP_CACHE_SECONDS > 0
    /\ now[r] - _cache_at < HEATMAP_CACHE_SECONDS

\* a request is on the hit branch only if it found the cache Fresh and on the
\* fetch branch only if it found it Stale; a request answered from the cache
\* after the latest successful fetch carries the points of that fetch
C1_HitBranch ==
    \A r \in Reqs :
        /\ pc[r] = "hit" => IsFresh(r)
        /\ pc[r] = "fetching" => ~IsFresh(r)
        /\ \A q \in Reqs :
             (/\ pc[q] = "done" /\ Succeeded(q) /\ _cache_at = now[q]
              /\ pc[r] = "done" /\ NoUpstreamCall(r) /\ now[r] >= now[q])
             => resp[r] = JSONResponse(outcome[q].val)

\* the freshness test and the cache-hit return change nothing in the cache,
\* and the cache-hit return answers with the cached list
C1_HitStep ==
    \A r \in Reqs :
        (pc[r] \in {"check", "hit"} /\ pc'[r] # pc[r])
        => /\ UNCHANGED cache
           /\ pc'[r] \in {"hit", "fetching", "done"}
           /\ pc[r] = "hit" =>
                (pc'[r] = "done" /\ resp'[r] = JSONResponse(_cache_points))

\* C1: with requests handled one after another, a request that finds the cache
\* Fresh makes no upstream call, returns exactly the cached point list and
\* leaves the cache unchanged; after a successful fetch at time t a later
\* request within the TTL returns the points of that fetch, and a request
\* that finds the cache Stale issues the upstream query.
C1_CacheHit == []C1_HitBranch /\ [][C1_HitStep]_vars

C1_Witness ==
    \E q, r \in Reqs :
        /\ pc[q] = "done" /\ Succeeded(q) /\ outcome[q].val # <<>>
        /\ pc[r] = "done" /\ NoUpstreamCall(r) /\ now[r] >= now[q]
        /\ resp[r] = JSONResponse(outcome[q].val)

\* C2: with requests handled one after another, when a request found the
\* cache Stale and its query and parse succeeded, then once its stores are
\* done the cached points are the parsed (capped) points, last_error is None
\* and fetched_at is the request's own `now`; it answers 200 with those points.
C2_StaleSuccess ==
    \A r \in Reqs :
        Succeeded(r) =>
            /\ pc[r] = "s_return" =>
                 /\ _cache_points = outcome[r].val
                 /\ _cache_last_error = None
                 /\ _cache_at = now[r]
                 /\ HEATMAP_MAX_POINTS > 0 =>
                      Len(_cache_points) <= HEATMAP_MAX_POINTS
            /\ pc[r] = "done" => resp[r] = JSONResponse(outcome[r].val)

C2_Witness ==
    \E q, r \in Reqs :
        /\ pc[q] = "done" /\ Failed(q)
        /\ pc[r] = "done" /\ Succeeded(r) /\ outcome[r].val # <<>>
        /\ now[r] > now[q]
        /\ _cache_points = outcome[r].val
        /\ _cache_last_error = None
        /\ resp[r].status_code = 200

\* C3: with requests handled one after another, when a request found the
\* cache Stale and its fetch failed, then once its stores are done the cached
\* points are empty, last_error is the non-empty description of the error and
\* fetched_at is the request's own `now`, also after a fetch that stored points.
C3_FailureReset ==
    \A r \in Reqs :
        (pc[r] = "f_return" /\ Failed(r)) =>
            /\ _cache_points = <<>>
            /\ _cache_last_error = Repr(outcome[r].exc)
            /\ _cache_last_error # None
            /\ _cache_last_error # ""
            /\ _cache_at = now[r]

C3_Witness ==
    \E q, r \in Reqs :
        /\ pc[q] = "done" /\ Succeeded(q) /\ resp[q].points # <<>>
        /\ pc[r] = "f_return" /\ Failed(r)
        /\ _cache_points = <<>>
        /\ _cache_last_error # None

\* C4: with debug mode off every answered /data request has status 200 and a
\* JSON array as body, the empty array when its fetch failed; a 502 error
\* object is answered only in debug mode and only by a failing fetch.
C4_Degradation ==
    \A r \in Reqs :
        pc[r] = "done" =>
            /\ resp[r].status_code \in {200, 502}
            /\ ~DEBUG => (resp[r].status_code = 200 /\ resp[r].array)
            /\ (~DEBUG /\ Failed(r)) => resp[r].points = <<>>
            /\ resp[r].status_code = 502 <=> (DEBUG /\ Failed(r))
            /\ resp[r].status_code = 502 =>
                 (~resp[r].array /\ resp[r].exception = Repr(outcome[r].exc))

C4_Witness ==
    \E q, r \in Reqs :
        /\ ~DEBUG
        /\ pc[q] = "done" /\ Succeeded(q) /\ resp[q].points # <<>>
        /\ pc[r] = "done" /\ outcome[r] = Raise("AttributeError")
        /\ resp[r] = JSONResponse(<<>>)

\* C5: whenever a handler is about to serve the cached point list, a recorded
\* last_error implies that the list is empty.
C5_NoOldDataWithError ==
    \A r \in Reqs :
        (pc[r] \in {"hit", "s_return"} /\ _cache_last_error # None)
        => _cache_points = <<>>

\* C6: accesses to the cache slot are mutually exclusive: no handler is at a
\* read of the cache while another has stored some but not all of the three
\* fields of its fetch attempt.
C6_MutualExclusion ==
    \A r, q \in Reqs :
        (r # q /\ pc[q] \in {"s_error", "s_at", "f_points", "f_at"})
        => pc[r] \notin {"check", "hit", "s_return"}

\* C7: the never-fetched cache (fetched_at = 0) is Stale: no request takes
\* the cache-hit branch while fetched_at is still the initial zero.
C7_InitialIsStale ==
    \A r \in Reqs : pc[r] = "hit" => _cache_at # 0

\* C8: with ttl <= 0 every /data request issues the upstream query: none
\* takes the cache-hit branch and none answers without having fetched.
C8_CachingDisabled ==
    HEATMAP_CACHE_SECONDS <= 0 =>
        \A r \in Reqs :
            /\ pc[r] # "hit"
            /\ pc[r] = "done" => ~NoUpstreamCall(r)

C8_Witness ==
    \E q, r \in Reqs :
        /\ HEATMAP_CACHE_SECONDS <= 0
        /\ pc[q] = "done" /\ ~NoUpstreamCall(q)
        /\ pc[r] = "fetching" /\ now[r] <= _cache_at

-----------------------------------------------------------------------------
(* Claims about the transformer *)

\* C9: _parse_points raises for no JSON object payload.
C9_TransformTotal == parsed # NotRun => parsed.ok

SeriesOf(p) == p.o.results.l[1].o.series.l

WellShapedPayloads ==
    {MkPayload(sl) : sl \in SeqsOver(WellShapedSeries, MaxSeries)}

HasKey(x, key) == x.k = "obj" /\ key \in DOMAIN x.o

\* both tags are present and coerce to a number
TagsCoercible(s) ==
    /\ HasKey(s, "tags") /\ HasKey(s.o.tags, "latitude")
    /\ HasKey(s.o.tags, "longitude")
    /\ Float(s.o.tags.o.latitude).ok /\ Float(s.o.tags.o.longitude).ok

\* the second column of the first value row, 0 when missing, null or not numeric
CountOf(s) ==
    IF /\ HasKey(s, "values") /\ s.o.values.k = "list"
       /\ Len(s.o.values.l) >= 1 /\ Len(s.o.values.l[1].l) >= 2
       /\ Float(s.o.values.l[1].l[2]).ok
    THEN Float(s.o.values.l[1].l[2]).val
    ELSE 0

RECURSIVE ExpectedPoints(_)
ExpectedPoints(sl) ==
    IF sl = <<>> THEN <<>>
    ELSE LET s == Head(sl)
         IN  (IF TagsCoercible(s) /\ CountOf(s) > 0
              THEN << <<Float(s.o.tags.o.latitude).val,
                        Float(s.o.tags.o.longitude).val, CountOf(s)>> >>
              ELSE <<>>) \o ExpectedPoints(Tail(sl))

NoCapInEffect(n) == HEATMAP_MAX_POINTS <= 0 \/ n <= HEATMAP_MAX_POINTS

\* C10: for well-shaped series and no cap in effect the output is, in series
\* order, the point of every series whose two tags coerce to numbers and whose
\* count coerces to a number > 0, and of no other series; every weight is > 0.
C10_EmissionRule ==
    (/\ parsed # NotRun
     /\ payload \in WellShapedPayloads
     /\ NoCapInEffect(Len(ExpectedPoints(SeriesOf(payload)))))
    => /\ parsed = Ok(ExpectedPoints(SeriesOf(payload)))
       /\ \A i \in 1..Len(parsed.val) : parsed.val[i][3] > 0

C10_Witness ==
    /\ parsed # NotRun
    /\ payload \in WellShapedPayloads
    /\ Len(SeriesOf(payload)) = 2
    /\ parsed = Ok(<< <<5, 7, 2>> >>)
    /\ CountOf(SeriesOf(payload)[1]) = 0 - 1

-----------------------------------------------------------------------------
(* Claims about the cap *)

Count(seq, v) == Cardinality({i \in DOMAIN seq : seq[i] = v})

Weight(p) == p[3]

\* `out` holds exactly the elements of `inp` at some n positions, and none of
\* the elements of `inp` left out weighs more than one that is kept
KeepsHeaviest(inp, out, n) ==
    \E K \in SUBSET (DOMAIN inp) :
        /\ Cardinality(K) = n
        /\ \A v \in PointVals :
             Count(out, v) = Cardinality({i \in K : inp[i] = v})
        /\ \A i \in K : \A j \in (DOMAIN inp) \ K :
             Weight(inp[i]) >= Weight(inp[j])

Descending(seq) ==
    \A i \in 1..(Len(seq) - 1) : Weight(seq[i]) >= Weight(seq[i + 1])

\* C11: the cap returns the list unchanged when max <= 0 or the list has at
\* most max points; otherwise the result has exactly max points, is a
\* sub-multiset of the input, is ordered by weight descending and no dropped
\* point weighs more than a kept one; so with max > 0 the list that is stored
\* and served has at most max points.
C11_CapCorrect ==
    capped.run =>
        /\ IF HEATMAP_MAX_POINTS <= 0 \/ Len(points) <= HEATMAP_MAX_POINTS
           THEN capped.val = points
           ELSE /\ Len(capped.val) = HEATMAP_MAX_POINTS
                /\ \A v \in PointVals :
                     Count(capped.val, v) <= Count(points, v)
                /\ Descending(capped.val)
                /\ KeepsHeaviest(points, capped.val, HEATMAP_MAX_POINTS)
        /\ HEATMAP_MAX_POINTS > 0 => Len(capped.val) <= HEATMAP_MAX_POINTS

\* weights [1, 5, 3, 9, 2] with max = 3 keep the weights 9, 5, 3
C11_Witness ==
    /\ HEATMAP_MAX_POINTS = 3
    /\ points = << <<0, 0, 1>>, <<0, 0, 5>>, <<0, 0, 3>>, <<0, 0, 9>>,
                   <<0, 0, 2>> >>
    /\ capped = Ran(<< <<0, 0, 9>>, <<0, 0, 5>>, <<0, 0, 3>> >>)

\* C14: for every point list and every max >= 0 the cap applied to its own
\* result returns that result: cap(cap(points, max), max) = cap(points, max).
C14_CapIdempotent ==
    (recapped.run /\ HEATMAP_MAX_POINTS >= 0) => recapped.val = capped.val

C14_Witness ==
    /\ recapped.run
    /\ HEATMAP_MAX_POINTS = 1
    /\ Len(points) = 3
    /\ capped.val # points
    /\ recapped.val = capped.val

-----------------------------------------------------------------------------
(* Claims about the query builder *)

\* the string is one or more digits followed by one unit, and nothing else
MatchesGrammar(w) ==
    \E u \in Units :
        /\ Len(w) > Len(u)
        /\ SubSeq(w, Len(w) - Len(u) + 1, Len(w)) = u
        /\ \A i \in 1..(Len(w) - Len(u)) : w[i] \in Digits

\* the query has the fixed shape, with w as its time window
UsesWindow(q, w) ==
    LET n == Len(q) - Len(QSelect) - Len(QWhere) - Len(w) - Len(QGroup)
    IN  /\ n >= 0
        /\ q = QSelect \o SubSeq(q, Len(QSelect) + 1, Len(QSelect) + n)
                 \o QWhere \o w \o QGroup

\* C12 as stated: a window that does not match the grammar, one padded with
\* whitespace included, gives the fallback window 24h in the query; a window
\* that matches is used verbatim.
C12_WindowValidation ==
    built.run =>
        IF MatchesGrammar(HEATMAP_TIME_WINDOW)
        THEN UsesWindow(built.val, HEATMAP_TIME_WINDOW)
        ELSE UsesWindow(built.val, <<"2", "4", "h">>)

\* C12 as amended: the window is validated after surrounding whitespace is
\* removed: when the stripped window does not match the grammar the query uses
\* 24h, when it matches the query uses the stripped window; so a window that
\* matches as configured is used verbatim.
C12_WindowValidationStripped ==
    built.run =>
        /\ IF MatchesGrammar(Strip(HEATMAP_TIME_WINDOW))
           THEN UsesWindow(built.val, Strip(HEATMAP_TIME_WINDOW))
           ELSE UsesWindow(built.val, <<"2", "4", "h">>)
        /\ MatchesGrammar(HEATMAP_TIME_WINDOW) =>
             UsesWindow(built.val, HEATMAP_TIME_WINDOW)

C12_Witness ==
    /\ built.run
    /\ HEATMAP_TIME_WINDOW = <<" ", "5", "m", "s">>
    /\ UsesWindow(built.val, <<"5", "m", "s">>)
    /\ ~UsesWindow(built.val, <<"2", "4", "h">>)

Quote == "\""

\* the characters of s that are no double quote
WithoutQuotes(s) == SelectSeq(s, LAMBDA c : c # Quote)

\* the position of the first double quote of q after position `from`
ClosingQuote(q, from) ==
    CHOOSE i \in (from + 1)..Len(q) :
        q[i] = Quote /\ \A j \in (from + 1)..(i - 1) : q[j] # Quote

\* C13: the query opens with SELECT SUM("count") AS hits FROM ", the quoted
\* identifier runs to the next double quote and is the measurement name with
\* every double quote removed, and what follows it is the WHERE clause with
\* the time window and the GROUP BY clause, whatever the measurement holds.
C13_QuoteStripping ==
    built.run =>
        LET q == built.val
            from == Len(QSelect)
            close == ClosingQuote(q, from)
            ident == SubSeq(q, from + 1, close - 1)
            rest == SubSeq(q, close, Len(q))
        IN  /\ SubSeq(q, 1, from) = QSelect
            /\ ident = WithoutQuotes(GEO_MEASUREMENT)
            /\ \A i \in 1..Len(ident) : ident[i] # Quote
            /\ \/ rest = QWhere \o Strip(HEATMAP_TIME_WINDOW) \o QGroup
               \/ rest = QWhere \o <<"2", "4", "h">> \o QGroup

C13_Witness ==
    /\ built.run
    /\ GEO_MEASUREMENT = <<"a", Quote, Quote>>
    /\ built.val = QSelect \o <<"a">> \o QWhere \o <<"2", "4", "h">> \o QGroup

-----------------------------------------------------------------------------
(* Claims about the diagnostic endpoints *)

\* C15: a diagnostic request answered with debug mode off gets status 404 and
\* neither the query text nor the last error; with debug mode on,
\* /debug/last_error answers with the recorded last_error and /debug/query
\* with the built query.
C15_DebugGating ==
    [][dresp' # dresp =>
         IF ~DEBUG
         THEN /\ dresp'.status_code = 404
              /\ ~dresp'.has_last_error
              /\ ~UsesWindow(dresp'.text, Strip(HEATMAP_TIME_WINDOW))
              /\ ~UsesWindow(dresp'.text, <<"2", "4", "h">>)
         ELSE /\ dresp'.status_code = 200
              /\ dresp'.endpoint = "/debug/last_error" =>
                   (dresp'.has_last_error
                    /\ dresp'.last_error = _cache_last_error)
              /\ dresp'.endpoint = "/debug/query" =>
                   IF MatchesGrammar(Strip(HEATMAP_TIME_WINDOW))
                   THEN UsesWindow(dresp'.text, Strip(HEATMAP_TIME_WINDOW))
                   ELSE UsesWindow(dresp'.text, <<"2", "4", "h">>)]_vars

-----------------------------------------------------------------------------
(* Claims about retries and concurrent requests *)

\* q is the request that was handled last before r, and its fetch failed
LastFailed(q, r) ==
    /\ q # r
    /\ pc[q] = "done" /\ Failed(q)
    /\ \A s \in Reqs \ {q, r} : pc[s] = "done" => now[s] <= now[q]

\* C16: with ttl > 0 and requests handled one after another, after a request
\* sampled at t had its fetch fail, a request sampled at t' with t' - t < ttl
\* takes the cache-hit branch, makes no upstream call and returns the empty
\* list, and a request with t' - t >= ttl issues the upstream query again.
C16_CoolDown ==
    [][\A q, r \in Reqs :
         (HEATMAP_CACHE_SECONDS > 0 /\ LastFailed(q, r)) =>
            /\ (pc[r] = "check" /\ pc'[r] # "check") =>
                 IF now[r] - now[q] < HEATMAP_CACHE_SECONDS
                 THEN pc'[r] = "hit"
                 ELSE pc'[r] = "fetching"
            /\ (pc[r] = "hit" /\ pc'[r] # "hit") =>
                 /\ pc'[r] = "done"
                 /\ outcome'[r] = NoOutcome
                 /\ resp'[r] = JSONResponse(<<>>)]_vars

C16_Witness ==
    \E q, r \in Reqs :
        /\ HEATMAP_CACHE_SECONDS > 0
        /\ pc[q] = "done" /\ Failed(q)
        /\ pc[r] = "done" /\ NoUpstreamCall(r)
        /\ now[r] >= now[q] /\ now[r] - now[q] < HEATMAP_CACHE_SECONDS
        /\ _cache_last_error # None
        /\ resp[r] = JSONResponse(<<>>)

\* C17: a request whose freshness test finds the cache Stale issues its own
\* upstream query whatever the other requests are doing, and the result of a
\* fetch is the result of that request alone; so all requests can have their
\* fetches in flight at once.
C17_NoCoalescing ==
    [][\A r \in Reqs :
         /\ (pc[r] = "check" /\ pc'[r] # "check") =>
              (pc'[r] = "fetching" <=> ~IsFresh(r))
         /\ (pc[r] = "fetching" /\ pc'[r] # "fetching") =>
              /\ outcome'[r] # NoOutcome
              /\ \A q \in Reqs \ {r} : outcome'[q] = outcome[q]]_vars

\* every request has found the cache Stale and has its fetch in flight, and
\* fetched_at is still unwritten
C17_Witness ==
    /\ HEATMAP_CACHE_SECONDS > 0
    /\ _cache_at = 0
    /\ \A r \in Reqs : pc[r] = "fetching" /\ NoUpstreamCall(r)

\* C18: under fair scheduling of the handlers and an upstream that answers or
\* raises, every request that started returns a response, every request that
\* started a fetch writes fetched_at, on success and on failure, and a handler
\* that has not returned can always take its next step, whatever the other
\* requests are doing.
C18_Completes ==
    \A r \in Reqs :
        /\ (pc[r] = "check") ~> (pc[r] = "done" /\ resp[r] # NoResp)
        /\ (pc[r] = "fetching") ~> (pc[r] \in {"s_return", "f_return"})
        /\ [](pc[r] \notin {"idle", "done"} => ENABLED Step(r))

\* a request whose fetch failed has returned while the fetch of a request
\* that arrived no later is still in flight
C18_Witness ==
    \E q, r \in Reqs :
        /\ pc[r] = "done" /\ Failed(r) /\ resp[r] # NoResp
        /\ _cache_at = now[r]
        /\ pc[q] = "fetching" /\ now[q] <= now[r]

\* C19: the stored fetched_at never decreases, under every interleaving of
\* concurrent requests.
C19_FetchedAtMonotone == [][_cache_at' >= _cache_at]_vars

\* C20: a request whose own fetch and parse succeeded answers with exactly
\* the points its own fetch produced, under every interleaving.
C20_OwnResult ==
    \A r \in Reqs :
        (pc[r] = "done" /\ Succeeded(r)) =>
            (resp[r].status_code = 200 /\ resp[r].points = outcome[r].val)


====
